---- MODULE Spec2Model ----
(***************************************************************************)
(* EvoPy: the generational loop of an evolution-strategy optimizer         *)
(* (src/evopy/evopy.py).  An engine is constructed (EvoPy.__init__) and    *)
(* run() is called on it: population initialization, then one loop         *)
(* iteration per generation (reproduce, age, evaluate, sort, truncate,     *)
(* stop check, report), then the return of the best genotype.              *)
(*                                                                         *)
(* Reals are scaled to integers.  Individual, ProgressReport, Strategy and *)
(* random_with_seed are imported by evopy.py from modules that are not     *)
(* part of the source tree at hand; they are modelled from their           *)
(* documented contracts.  The population mean and standard deviation of a  *)
(* report are derived values that nothing reads back; they are left out   *)
(* of the report record.                                                   *)
(***************************************************************************)
EXTENDS Integers, Sequences, FiniteSets, TLC

VARIABLES
    cfg,            \* the constructor's arguments (self.* set in __init__)
    pc,             \* per engine: "ready" | "loop" | "returned" | "raised"
    population,     \* per engine: run()'s local `population`
    best,           \* per engine: run()'s local `best` (None before it is set)
    generation,     \* per engine: run()'s loop variable `generation`
    evaluations,    \* per engine: self.evaluations
    random,         \* per engine: state of the generator self.random
    elapsed,        \* per engine: time.time() - start_time at the last read
    reports,        \* per engine: the reports handed to self.reporter by the
                    \* current call of run(), in order
    result,         \* per engine: what run() returned (None when it has not)
    error,          \* per engine: the exception run() raised ("" when none)
    fitness_calls,  \* per engine: number of calls of self.fitness_function
    history,        \* per engine: one record per generation executed by the
                    \* current call of run() (ghost)
    entered         \* per engine: self.evaluations at each entry of run() (ghost)

vars == <<cfg, pc, population, best, generation, evaluations, random, elapsed,
          reports, result, error, fitness_calls, history, entered>>

----------------------------------------------------------------------------
(* Bounds of the model *)

MaxGenerations == 2
MaxPopulation == 2
MaxChildren == 2
MaxAge == 2
MaxLength == 1
MaxCoord == 2
MaxSeed == 1
MaxTime == 2
MaxRuns == 2

Engines == {1, 2}

\* Python's None / a present optional value
None == <<>>
Some(v) == <<v>>
Get(o) == o[1]

Min(a, b) == IF a <= b THEN a ELSE b
Max(a, b) == IF a >= b THEN a ELSE b
Abs(x) == IF x < 0 THEN -x ELSE x

RECURSIVE SumSeq(_)
SumSeq(s) == IF s = <<>> THEN 0 ELSE Head(s) + SumSeq(Tail(s))

\* Python's seq[:n] for n >= 0
Take(s, n) == SubSeq(s, 1, Min(n, Len(s)))

\* a vector of n components, all v
Vec(n, v) == [i \in 1..n |-> v]

----------------------------------------------------------------------------
(* Strategy enum (evopy.strategy) *)

SINGLE_VARIANCE == "SINGLE_VARIANCE"
MULTIPLE_VARIANCE == "MULTIPLE_VARIANCE"
FULL_VARIANCE == "FULL_VARIANCE"
Strategy == {SINGLE_VARIANCE, MULTIPLE_VARIANCE, FULL_VARIANCE}

----------------------------------------------------------------------------
(* The seeded generator (evopy.utils.random_with_seed): a linear           *)
(* congruential stream; the same seed gives the same sequence.             *)

RngModulus == 8
RngMultiplier == 5
RngIncrement == 3

NextRandom(s) == (RngMultiplier * s + RngIncrement) % RngModulus

\* the standard-normal deviate read off generator state s, scaled: -1, 0 or 1
Deviate(s) == (s % 3) - 1

RECURSIVE Advance(_, _)
Advance(s, n) == IF n <= 0 THEN s ELSE Advance(NextRandom(s), n - 1)

\* n successive deviates drawn from state s (randn(n) / normal(size=n))
RECURSIVE Draws(_, _)
Draws(s, n) ==
    IF n <= 0 THEN <<>>
    ELSE <<Deviate(NextRandom(s))>> \o Draws(NextRandom(s), n - 1)

\* self.random = random_with_seed(self.random_seed)
RandomWithSeed(c, e) == Get(c.random_seed) % RngModulus

----------------------------------------------------------------------------
(* Individual (evopy.individual): genotype, age, cached fitness.  `born`   *)
(* is a ghost field: the generation that created the individual (-1 for    *)
(* the initial population).                                                *)

\* np.clip(x, lo, hi)
Clip(x, lo, hi) == Min(Max(x, lo), hi)

\* a genotype component, kept inside the modelled range of reals
Coord(x) == Clip(x, -MaxCoord, MaxCoord)

\* ClipsUpperOnly: only the upper bound is enforced
ClipsUpperOnly(genotype, bounds) ==
    IF bounds = None THEN genotype
    ELSE [i \in DOMAIN genotype |-> Min(genotype[i], Get(bounds)[2])]

\* population_parameters clipped into the bounds, when bounds are given
WithinBounds(genotype, bounds) ==
    IF bounds = None THEN genotype
    ELSE [i \in DOMAIN genotype |-> Clip(genotype[i], Get(bounds)[1], Get(bounds)[2])]

\* Individual(parameters, ...): age 0, fitness not yet computed
Individual(genotype, born) ==
    [genotype |-> genotype, age |-> 0, fitness |-> None, born |-> born]

\* the fitness functions of the model: pure functions of the genotype
FitnessFunction(f, genotype) ==
    IF f = "sphere" THEN SumSeq([i \in DOMAIN genotype |-> genotype[i] * genotype[i]])
    ELSE SumSeq(genotype)

\* individual.evaluate(fitness_function): computes and caches the fitness
Evaluate(ind, c) ==
    [ind EXCEPT !.fitness = Some(FitnessFunction(c.fitness_function, ind.genotype))]

EvaluateAll(pop, c) == [i \in DOMAIN pop |-> Evaluate(pop[i], c)]

\* parent.reproduce(): a new individual of age 0, the parent's genotype
\* perturbed by one deviate per component and kept within the bounds
Reproduce(parent, devs, c, g) ==
    Individual(
        WithinBounds([i \in DOMAIN parent.genotype |-> Coord(parent.genotype[i] + devs[i])],
                     c.bounds),
        g)

----------------------------------------------------------------------------
(* sorted(seq, reverse=maximize, key=fitness): a stable sort; with         *)
(* reverse=True equal keys keep their original order as well.              *)

\* a sorts strictly before b
Before(a, b, maximize) ==
    IF maximize THEN Get(a.fitness) > Get(b.fitness)
    ELSE Get(a.fitness) < Get(b.fitness)

RECURSIVE Insert(_, _, _)
Insert(s, x, maximize) ==
    IF s = <<>> THEN <<x>>
    ELSE IF Before(x, Head(s), maximize) THEN <<x>> \o s
    ELSE <<Head(s)>> \o Insert(Tail(s), x, maximize)

RECURSIVE SortInto(_, _, _)
SortInto(acc, rest, maximize) ==
    IF rest = <<>> THEN acc
    ELSE SortInto(Insert(acc, Head(rest), maximize), Tail(rest), maximize)

\* ReversedAscending: reverse=True done as an ascending sort read backwards
ReversedAscending(pop, maximize) ==
    IF maximize
    THEN LET up == SortInto(<<>>, pop, FALSE)
         IN  [i \in DOMAIN up |-> up[Len(up) + 1 - i]]
    ELSE SortInto(<<>>, pop, FALSE)

Sorted(pop, maximize) == SortInto(<<>>, pop, maximize)

----------------------------------------------------------------------------
(* EvoPy._init_population *)

\* RecognizesAnyStrategy: the final else branch falls through instead of raising
RecognizesAnyStrategy(s) == TRUE

\* the if/elif chain over the strategy: its else branch raises ValueError
RecognizedStrategy(s) == s \in Strategy

\* the number of strategy parameters drawn by randn(...)
StrategyParameterCount(c) ==
    IF c.strategy = MULTIPLE_VARIANCE THEN c.individual_length
    ELSE IF c.strategy = FULL_VARIANCE
         THEN ((c.individual_length + 1) * c.individual_length) \div 2
    ELSE 1

\* WarmStartCutToSize: the warm start is cut to population_size genotypes
WarmStartCutToSize(c, s) ==
    IF c.warm_start = None
    THEN [n \in 1..c.population_size |->
            [i \in 1..c.individual_length |->
                Coord(c.std * Draws(Advance(s, (n - 1) * c.individual_length),
                                    c.individual_length)[i])]]
    ELSE Take(Get(c.warm_start), c.population_size)

\* population_parameters: the warm start as given, or population_size
\* genotypes of individual_length normal deviates (loc=0, scale=std) each,
\* drawn one after the other from generator state s
PopulationParameters(c, s) ==
    IF c.warm_start = None
    THEN [n \in 1..c.population_size |->
            [i \in 1..c.individual_length |->
                Coord(c.std * Draws(Advance(s, (n - 1) * c.individual_length),
                                    c.individual_length)[i])]]
    ELSE Get(c.warm_start)

\* the generator state after _init_population's draws from state s
RandomAfterInit(c, s) ==
    Advance(s, StrategyParameterCount(c)
               + (IF c.warm_start = None
                  THEN c.population_size * c.individual_length ELSE 0))

\* the list of Individuals _init_population returns (strategy recognized)
InitPopulation(c, s) ==
    LET params == PopulationParameters(c, Advance(s, StrategyParameterCount(c)))
    IN  [n \in DOMAIN params |-> Individual(WithinBounds(params[n], c.bounds), -1)]

----------------------------------------------------------------------------
(* EvoPy._age_population *)

\* DropsYoung: the filter keeps the individuals with one more generation to live
DropsYoung(pop, max_age) ==
    LET kept == SelectSeq(pop, LAMBDA i : i.age + 1 < max_age)
    IN  [k \in DOMAIN kept |-> [kept[k] EXCEPT !.age = @ + 1]]

\* KeepsUpToMaxAge: the filter compares with <= instead of <
KeepsUpToMaxAge(pop, max_age) ==
    LET kept == SelectSeq(pop, LAMBDA i : i.age <= max_age)
    IN  [k \in DOMAIN kept |-> [kept[k] EXCEPT !.age = @ + 1]]

\* NeverDrops: every individual is aged, none is filtered out
NeverDrops(pop, max_age) == [k \in DOMAIN pop |-> [pop[k] EXCEPT !.age = @ + 1]]

AgePopulation(pop, max_age) ==
    LET kept == SelectSeq(pop, LAMBDA i : i.age < max_age)
    IN  [k \in DOMAIN kept |-> [kept[k] EXCEPT !.age = @ + 1]]

----------------------------------------------------------------------------
(* EvoPy._check_early_stop *)

\* StopsAboveBudgetOnly: the evaluation budget is compared with > instead of >=
StopsAboveBudgetOnly(c, t, b, evals) ==
    \/ (c.max_run_time # None /\ t > Get(c.max_run_time))
    \/ (c.target_fitness_value # None
        /\ Abs(Get(b.fitness) - Get(c.target_fitness_value)) < c.target_tolerance)
    \/ (c.max_evaluations # None /\ evals > Get(c.max_evaluations))

\* TimeBudgetDefaultsToZero: an unset max_run_time is read as a budget of 0
TimeBudgetDefaultsToZero(c, t, b, evals) ==
    \/ t > (IF c.max_run_time = None THEN 0 ELSE Get(c.max_run_time))
    \/ (c.target_fitness_value # None
        /\ Abs(Get(b.fitness) - Get(c.target_fitness_value)) < c.target_tolerance)
    \/ (c.max_evaluations # None /\ evals >= Get(c.max_evaluations))

\* t: time.time() - start_time as read by the check; b: the best individual;
\* evals: self.evaluations
CheckEarlyStop(c, t, b, evals) ==
    \/ (c.max_run_time # None /\ t > Get(c.max_run_time))
    \/ (c.target_fitness_value # None
        /\ Abs(Get(b.fitness) - Get(c.target_fitness_value)) < c.target_tolerance)
    \/ (c.max_evaluations # None /\ evals >= Get(c.max_evaluations))

----------------------------------------------------------------------------
(* The steps of EvoPy.run *)

\* SkipsNegativeLength: the guard tests individual_length < 0
SkipsNegativeLength(c) == c.individual_length < 0

\* if self.individual_length == 0: return None
SkipsRun(c) == c.individual_length = 0

\* for generation in range(self.generations): no iteration at all
\* RangeEmptyOrBudgetSpent: the loop is also skipped when the budget is used up
RangeEmptyOrBudgetSpent(c) ==
    c.generations <= 0 \/ (c.max_evaluations # None /\ Get(c.max_evaluations) <= 0)

RangeEmpty(c) == c.generations <= 0

\* the parent of the k-th child in a population of n: the comprehension's
\* inner loop runs over the parents, its outer loop over range(num_children)
ParentIndex(k, n) == ((k - 1) % n) + 1

\* ChildrenOfSurvivors: the population is aged before it reproduces
ChildrenOfSurvivors(pop, c, s, g) ==
    LET kept == SelectSeq(pop, LAMBDA i : i.age < c.max_age)
    IN  [k \in 1..(c.num_children * Len(kept)) |->
            Reproduce(kept[ParentIndex(k, Len(kept))],
                      Draws(Advance(s, (k - 1) * c.individual_length),
                            c.individual_length),
                      c, g)]

\* children = [parent.reproduce() for _ in range(num_children) for parent in
\* population]: child k comes from parent ((k-1) mod |population|) + 1 and
\* takes individual_length deviates from the shared generator
Children(pop, c, s, g) ==
    [k \in 1..(c.num_children * Len(pop)) |->
        Reproduce(pop[ParentIndex(k, Len(pop))],
                  Draws(Advance(s, (k - 1) * c.individual_length), c.individual_length),
                  c, g)]

\* CountsAfterTruncation: the counter is increased after the slice
CountsAfterTruncation(evals, pop, c) == evals + Min(Len(pop), c.population_size)

\* self.evaluations = len(population)
SetsEvaluations(evals, pop, c) == Len(pop)

\* self.evaluations += len(population), pop being the sorted union
CountEvaluations(evals, pop, c) == evals + Len(pop)

\* KeepsOneFewer: the slice stops one short of population_size
KeepsOneFewer(pop, size) == Take(pop, size - 1)

\* KeepsOneMore: the slice keeps population_size + 1 individuals
KeepsOneMore(pop, size) == Take(pop, size + 1)

\* population[:self.population_size]
Truncate(pop, size) == Take(pop, size)

\* TakesLast: the best is read from the wrong end of the sorted population
TakesLast(pop) == pop[Len(pop)]

\* best = population[0]
BestOf(pop) == pop[1]

\* StopsOneLate: the last generation is compared with generations
StopsOneLate(g, generations) == g = generations

\* generation == self.generations - 1
LastGeneration(g, generations) == g = generations - 1

\* OneBasedReport: the report numbers generations from 1
OneBasedReport(g, evals, b, t, stop) ==
    [generation |-> g + 1, evaluations |-> evals, best_genotype |-> b.genotype,
     best_fitness |-> Get(b.fitness), time_elapsed |-> t, should_stop |-> stop]

\* ProgressReport(generation, self.evaluations, best, best.genotype,
\*                best.fitness, mean, std, time.time() - start_time, should_stop)
ProgressReport(g, evals, b, t, stop) ==
    [generation |-> g, evaluations |-> evals, best_genotype |-> b.genotype,
     best_fitness |-> Get(b.fitness), time_elapsed |-> t, should_stop |-> stop]

----------------------------------------------------------------------------
(* Configurations: the constructor's arguments the model explores *)

\* a warm start of n genotypes of length len, some components outside [-1, 1]
WarmStart(len, n) == [k \in 1..n |-> Vec(len, ((2 * k) % 5) - 2)]

WarmStarts(len) ==
    {None, Some(WarmStart(len, 0)), Some(WarmStart(len, 1)),
     Some(WarmStart(len, MaxPopulation + 1))}

Default ==
    [fitness_function |-> "sphere", individual_length |-> 1, warm_start |-> None,
     generations |-> MaxGenerations, population_size |-> MaxPopulation,
     num_children |-> 1, mean |-> 0, std |-> 1, maximize |-> FALSE,
     strategy |-> SINGLE_VARIANCE, random_seed |-> Some(0), reporter |-> TRUE,
     target_fitness_value |-> None, target_tolerance |-> 1, max_run_time |-> None,
     max_evaluations |-> None, bounds |-> None, max_age |-> 0]

\* selection: sizes, direction, ages and warm starts crossed
SelectionConfigs ==
    {[Default EXCEPT !.generations = t[1], !.population_size = t[2],
                     !.num_children = t[3], !.maximize = t[4], !.max_age = t[5],
                     !.warm_start = t[6], !.random_seed = Some(t[7])] :
        t \in (0..MaxGenerations) \X (0..MaxPopulation) \X (0..MaxChildren)
              \X BOOLEAN \X (0..MaxAge) \X WarmStarts(Default.individual_length) \X (0..MaxSeed)}

\* stopping: the three stop parameters crossed with the sizes
StopConfigs ==
    {[Default EXCEPT !.generations = t[1], !.target_fitness_value = t[2][1],
                     !.target_tolerance = t[2][2], !.max_run_time = t[3],
                     !.max_evaluations = t[4], !.population_size = t[5],
                     !.num_children = t[6], !.max_age = t[7],
                     !.random_seed = Some(t[8]), !.reporter = t[9]] :
        t \in (0..MaxGenerations)
              \X {<<None, 1>>, <<Some(0), 1>>, <<Some(1), 2>>}
              \X {None, Some(0), Some(1)}
              \X {None, Some(0), Some(2)}
              \X (1..MaxPopulation) \X (1..MaxChildren) \X {0, 1}
              \X (0..MaxSeed) \X BOOLEAN}

\* edges: genotype length, strategy, bounds, fitness function
EdgeConfigs ==
    UNION {
        {[Default EXCEPT !.individual_length = len, !.strategy = t[1], !.bounds = t[2],
                         !.warm_start = t[3], !.reporter = t[4],
                         !.fitness_function = t[5], !.generations = t[6]] :
            t \in (Strategy \cup {"UNKNOWN"}) \X {None, Some(<<-1, 1>>)}
                  \X WarmStarts(len) \X BOOLEAN \X {"sphere", "linear"}
                  \X {0, 1, MaxGenerations}} :
        len \in 0..MaxLength}

\* bounds: box bounds crossed with seeds, warm starts, lengths and sizes
BoundsConfigs ==
    UNION {
        {[Default EXCEPT !.individual_length = len, !.bounds = Some(t[1]),
                         !.warm_start = t[2], !.random_seed = Some(t[3]),
                         !.population_size = t[4]] :
            t \in {<<-1, 1>>, <<0, 1>>, <<-1, 0>>} \X WarmStarts(len)
                  \X (0..MaxSeed) \X (1..MaxPopulation)} :
        len \in 1..MaxLength}

Configs == SelectionConfigs \cup StopConfigs \cup EdgeConfigs \cup BoundsConfigs

----------------------------------------------------------------------------
(* State after construction (EvoPy.__init__), run() not yet called *)

Constructed(c) ==
    /\ cfg = c
    /\ pc = [e \in Engines |-> "ready"]
    /\ population = [e \in Engines |-> <<>>]
    /\ best = [e \in Engines |-> None]
    /\ generation = [e \in Engines |-> 0]
    /\ evaluations = [e \in Engines |-> 0]
    /\ random = [e \in Engines |-> RandomWithSeed(c, e)]
    /\ elapsed = [e \in Engines |-> 0]
    /\ reports = [e \in Engines |-> <<>>]
    /\ result = [e \in Engines |-> None]
    /\ error = [e \in Engines |-> ""]
    /\ fitness_calls = [e \in Engines |-> 0]
    /\ history = [e \in Engines |-> <<>>]
    /\ entered = [e \in Engines |-> <<>>]

Init == \E c \in Configs : Constructed(c)

----------------------------------------------------------------------------
(* run(), up to the first loop iteration: the zero-length guard, the start *)
(* time, _init_population, the evaluation of the initial population, and   *)
(* the return when there is no generation to execute.                      *)

Run(e) ==
    /\ pc[e] = "ready"
    /\ UNCHANGED <<cfg, generation, evaluations, elapsed, reports, history>>
    /\ entered' = [entered EXCEPT ![e] = Append(@, evaluations[e])]
    /\ IF SkipsRun(cfg)
       THEN /\ pc' = [pc EXCEPT ![e] = "returned"]
            /\ UNCHANGED <<population, best, random, result, error, fitness_calls>>
       ELSE IF ~RecognizedStrategy(cfg.strategy)
       THEN /\ pc' = [pc EXCEPT ![e] = "raised"]
            /\ error' = [error EXCEPT ![e] = "ValueError"]
            /\ UNCHANGED <<population, best, random, result, fitness_calls>>
       ELSE LET pop == EvaluateAll(InitPopulation(cfg, random[e]), cfg)
            IN  /\ random' = [random EXCEPT ![e] = RandomAfterInit(cfg, @)]
                /\ fitness_calls' = [fitness_calls EXCEPT ![e] = @ + Len(pop)]
                /\ population' = [population EXCEPT ![e] = pop]
                /\ IF pop = <<>>
                   THEN \* sorted([])[0]
                        /\ pc' = [pc EXCEPT ![e] = "raised"]
                        /\ error' = [error EXCEPT ![e] = "IndexError"]
                        /\ UNCHANGED <<best, result>>
                   ELSE LET b == Sorted(pop, cfg.maximize)[1]
                        IN  /\ best' = [best EXCEPT ![e] = Some(b)]
                            /\ error' = error
                            /\ IF RangeEmpty(cfg)
                               THEN /\ pc' = [pc EXCEPT ![e] = "returned"]
                                    /\ result' = [result EXCEPT ![e] = Some(b.genotype)]
                               ELSE /\ pc' = [pc EXCEPT ![e] = "loop"]
                                    /\ result' = result

----------------------------------------------------------------------------
(* One iteration of run()'s loop, with the return that follows the last    *)

Generation(e) ==
    /\ pc[e] = "loop"
    /\ \E g \in {generation[e]} :
       \E children \in {Children(population[e], cfg, random[e], g)} :
       \E survivors \in {AgePopulation(population[e], cfg.max_age)} :
       \E pool \in {EvaluateAll(children \o survivors, cfg)} :
       \E union \in {Sorted(pool, cfg.maximize)} :
       \E evals \in {CountEvaluations(evaluations[e], union, cfg)} :
       \E pop \in {Truncate(union, cfg.population_size)} :
           /\ random' = [random EXCEPT
                           ![e] = Advance(@, Len(children) * cfg.individual_length)]
           /\ fitness_calls' = [fitness_calls EXCEPT ![e] = @ + Len(union)]
           /\ evaluations' = [evaluations EXCEPT ![e] = evals]
           /\ population' = [population EXCEPT ![e] = pop]
           /\ IF pop = <<>>
              THEN \* population[0] of an empty list
                   /\ pc' = [pc EXCEPT ![e] = "raised"]
                   /\ error' = [error EXCEPT ![e] = "IndexError"]
                   /\ UNCHANGED <<cfg, best, generation, elapsed, reports, result,
                                  history, entered>>
              ELSE \E t1 \in elapsed[e]..Min(elapsed[e] + 1, MaxTime) :
                   \E t2 \in t1..Min(t1 + 1, MaxTime) :
                   LET b == BestOf(pop)
                       should_stop == \/ CheckEarlyStop(cfg, t1, b, evals)
                                      \/ LastGeneration(g, cfg.generations)
                       leaves == should_stop \/ g + 1 >= cfg.generations
                   IN  /\ best' = [best EXCEPT ![e] = Some(b)]
                       /\ elapsed' = [elapsed EXCEPT ![e] = t2]
                       /\ reports' = [reports EXCEPT ![e] =
                              IF cfg.reporter
                              THEN Append(@, ProgressReport(g, evals, b, t2, should_stop))
                              ELSE @]
                       /\ history' = [history EXCEPT ![e] = Append(@,
                              [generation |-> g, parents |-> Len(population[e]),
                               parent_ages |-> [i \in DOMAIN population[e] |->
                                                   population[e][i].age],
                               pool |-> pool, ranked |-> union,
                               offspring_of |-> [k \in DOMAIN children |->
                                   ParentIndex(k, Len(population[e]))],
                               children |-> Len(children),
                               survivors |-> Len(survivors),
                               evaluations |-> evals, size |-> Len(pop), best |-> b,
                               checked_at |-> t1, should_stop |-> should_stop])]
                       /\ pc' = [pc EXCEPT ![e] = IF leaves THEN "returned" ELSE "loop"]
                       /\ result' = [result EXCEPT ![e] =
                              IF leaves THEN Some(b.genotype) ELSE @]
                       /\ generation' = [generation EXCEPT ![e] =
                              IF leaves THEN g ELSE g + 1]
                       /\ UNCHANGED <<cfg, error, entered>>

----------------------------------------------------------------------------
(* One engine, run() called once on it *)

Next == Run(1) \/ Generation(1)

Spec == Init /\ [][Next]_vars

----------------------------------------------------------------------------
(* Two engines constructed with the same configuration and seed, run() called *)
(* once on each; each engine reads its own clock.                            *)

PairConfigs ==
    {[Default EXCEPT !.max_run_time = t[1], !.target_fitness_value = t[2],
                     !.max_evaluations = t[3], !.max_age = t[4],
                     !.random_seed = Some(t[5])] :
        t \in {None, Some(0), Some(1)} \X {None, Some(0)} \X {None, Some(2)}
              \X {0, 1} \X (0..MaxSeed)}

InitPair == \E c \in PairConfigs : Constructed(c)

NextPair == \E e \in Engines : Run(e) \/ Generation(e)

SpecPair == InitPair /\ [][NextPair]_vars

----------------------------------------------------------------------------
(* One engine, run() called once: the interpreter keeps executing run()    *)
(* while a step of it is left (the fitness function and the observer       *)
(* return).                                                                *)

LiveConfigs ==
    {[Default EXCEPT !.generations = t[1], !.max_evaluations = t[2],
                     !.target_fitness_value = t[3], !.max_run_time = t[4],
                     !.population_size = t[5], !.max_age = t[6]] :
        t \in (0..MaxGenerations) \X {None, Some(2)} \X {None, Some(1)}
              \X {None, Some(0)} \X (0..MaxPopulation) \X {0, 1}}

InitLive == \E c \in LiveConfigs : Constructed(c)

SpecLive == InitLive /\ [][Next]_vars /\ WF_vars(Next)

----------------------------------------------------------------------------
(* One engine, run() called on it up to MaxRuns times.  A new call starts  *)
(* with fresh locals; the engine's attributes (self.evaluations,           *)
(* self.random) are what the previous call left.                           *)

Again(e) ==
    /\ pc[e] \in {"returned", "raised"}
    /\ Len(entered[e]) < MaxRuns
    /\ pc' = [pc EXCEPT ![e] = "ready"]
    /\ population' = [population EXCEPT ![e] = <<>>]
    /\ best' = [best EXCEPT ![e] = None]
    /\ generation' = [generation EXCEPT ![e] = 0]
    /\ elapsed' = [elapsed EXCEPT ![e] = 0]
    /\ reports' = [reports EXCEPT ![e] = <<>>]
    /\ result' = [result EXCEPT ![e] = None]
    /\ error' = [error EXCEPT ![e] = ""]
    /\ history' = [history EXCEPT ![e] = <<>>]
    /\ UNCHANGED <<cfg, evaluations, random, fitness_calls, entered>>

RerunConfigs ==
    {[Default EXCEPT !.generations = t[1], !.max_evaluations = t[2],
                     !.population_size = t[3], !.num_children = t[4],
                     !.max_age = t[5], !.random_seed = Some(t[6])] :
        t \in (1..MaxGenerations) \X {None, Some(2), Some(3)}
              \X (1..MaxPopulation) \X (1..MaxChildren) \X {0, 1} \X (0..MaxSeed)}

InitRerun == \E c \in RerunConfigs : Constructed(c)

NextRerun == Run(1) \/ Generation(1) \/ Again(1)

SpecRerun == InitRerun /\ [][NextRerun]_vars

----------------------------------------------------------------------------
(* Vocabulary of the properties *)

\* fitness a is at least as good as fitness b in the configured direction
NotWorse(a, b) == IF cfg.maximize THEN a >= b ELSE a <= b

\* run() has executed at least one whole generation and has not raised
Ran(e) == pc[e] \in {"loop", "returned"} /\ history[e] # <<>>

\* the stop conditions of generation record h, as the documentation states them
TimeUp(h) == cfg.max_run_time # None /\ h.checked_at > Get(cfg.max_run_time)
OnTarget(h) ==
    /\ cfg.target_fitness_value # None
    /\ Abs(Get(h.best.fitness) - Get(cfg.target_fitness_value)) < cfg.target_tolerance
OutOfBudget(h) ==
    cfg.max_evaluations # None /\ h.evaluations >= Get(cfg.max_evaluations)

\* the sequence of reported bests of engine e
ReportedBests(e) ==
    [k \in DOMAIN reports[e] |->
        <<reports[e][k].best_fitness, reports[e][k].best_genotype>>]

----------------------------------------------------------------------------
(* C1 (as stated): the best fitness reported at generation g+1 is never    *)
(* worse than the one reported at generation g, for every max_age,         *)
(* num_children and population_size.                                       *)
C1_MonotonicAlways ==
    \A k \in 1..(Len(reports[1]) - 1) :
        NotWorse(reports[1][k + 1].best_fitness, reports[1][k].best_fitness)

(* C1 (amended): the best fitness reported at generation g+1 is not worse  *)
(* than the one reported at generation g whenever the best individual of   *)
(* generation g has an age below max_age, so that aging keeps it; this is  *)
(* always so when max_age >= generations.                                  *)
C1_MonotonicWhileBestSurvives ==
    /\ \A k \in 1..(Len(history[1]) - 1) :
          history[1][k].best.age < cfg.max_age
          => NotWorse(Get(history[1][k + 1].best.fitness),
                      Get(history[1][k].best.fitness))
    /\ (cfg.reporter /\ cfg.max_age >= cfg.generations) => C1_MonotonicAlways

\* a second generation whose best is a survivor of the first: every child
\* of that generation is no better than the kept best
C1_Witness ==
    /\ Len(history[1]) >= 2
    /\ history[1][1].best.age < cfg.max_age
    /\ history[1][2].best.born < 1
    /\ history[1][2].children > 0

(* C2: for population_size >= 1 the population after the truncation of any *)
(* generation has at most population_size individuals, whatever the size   *)
(* of the initial population.                                              *)
C2_PopulationBounded ==
    (cfg.population_size >= 1 /\ Ran(1))
    => /\ Len(population[1]) <= cfg.population_size
       /\ \A k \in DOMAIN history[1] : history[1][k].size <= cfg.population_size

\* a warm start larger than population_size, cut down by the first truncation
C2_Witness ==
    /\ Ran(1)
    /\ cfg.warm_start # None
    /\ history[1][1].parents > cfg.population_size
    /\ cfg.population_size >= 1
    /\ Len(population[1]) = cfg.population_size

(* C3: a generation after whose selection an enabled stop condition holds  *)
(* (time read by the check > max_run_time, |best - target| < tolerance,    *)
(* evaluations >= max_evaluations) is flagged terminal and is the last one *)
(* executed; the conditions are OR-combined and checked in every           *)
(* generation, so a generation is flagged exactly when one of them holds   *)
(* or it is the last configured one.                                       *)
C3_EarlyStop ==
    \A k \in DOMAIN history[1] :
        LET h == history[1][k]
            met == TimeUp(h) \/ OnTarget(h) \/ OutOfBudget(h)
        IN  /\ met => /\ h.should_stop
                      /\ k = Len(history[1])
                      /\ pc[1] = "returned"
            /\ h.should_stop <=> (met \/ h.generation = cfg.generations - 1)
            /\ cfg.reporter => reports[1][k].should_stop = h.should_stop

\* the evaluation budget alone ends the run before the last configured generation
C3_Witness ==
    /\ pc[1] = "returned"
    /\ history[1] # <<>>
    /\ Len(history[1]) < cfg.generations
    /\ LET h == history[1][Len(history[1])]
       IN  OutOfBudget(h) /\ ~TimeUp(h) /\ ~OnTarget(h)
    /\ cfg.reporter
    /\ reports[1][Len(reports[1])].should_stop

(* C4: the genotype run() returns after at least one generation is that of *)
(* a member of the final population whose fitness is not worse than the    *)
(* fitness of any member of that population.                               *)
C4_ReturnsBestOfFinalPopulation ==
    (pc[1] = "returned" /\ cfg.individual_length > 0 /\ history[1] # <<>>)
    => \E i \in DOMAIN population[1] :
          /\ result[1] = Some(population[1][i].genotype)
          /\ \A j \in DOMAIN population[1] :
                NotWorse(Get(population[1][i].fitness), Get(population[1][j].fitness))

\* a final population whose members differ in fitness
C4_Witness ==
    /\ pc[1] = "returned"
    /\ history[1] # <<>>
    /\ \E i, j \in DOMAIN population[1] :
          population[1][i].fitness # population[1][j].fitness

(* C5: after every generation the evaluation counter, which is the value   *)
(* in that generation's report, is the sum over the generations so far of  *)
(* the number of offspring plus the number of survivors kept by aging; the *)
(* evaluation of the initial population counts nothing.                    *)
C5_EvaluationCount ==
    pc[1] \in {"loop", "returned"}
    => /\ evaluations[1]
            = SumSeq([k \in DOMAIN history[1] |->
                         history[1][k].children + history[1][k].survivors])
       /\ \A k \in DOMAIN reports[1] :
             reports[1][k].evaluations
                = SumSeq([j \in 1..k |->
                             history[1][j].children + history[1][j].survivors])
       /\ (history[1] = <<>> /\ cfg.individual_length > 0)
          => (evaluations[1] = 0 /\ fitness_calls[1] > 0)

\* two generations, with survivors, the second union larger than population_size
C5_Witness ==
    /\ Len(reports[1]) >= 2
    /\ history[1][2].survivors > 0
    /\ history[1][2].children + history[1][2].survivors > cfg.population_size

(* C6 (as stated): two runs with the same configuration and seed report    *)
(* the same bests and return the same genotype, whatever stop parameters   *)
(* are configured, a max_run_time included.                                *)
C6_DeterministicAlways ==
    (pc[1] = "returned" /\ pc[2] = "returned")
    => /\ ReportedBests(1) = ReportedBests(2)
       /\ result[1] = result[2]

(* C6 (amended): two runs with the same configuration and the same         *)
(* configured seed report the same bests and return the same genotype,     *)
(* provided no max_run_time is configured.                                 *)
C6_DeterministicWithoutTimeBudget ==
    (cfg.max_run_time = None /\ pc[1] = "returned" /\ pc[2] = "returned")
    => /\ ReportedBests(1) = ReportedBests(2)
       /\ result[1] = result[2]

\* both runs went through two generations without a time budget
C6_Witness ==
    /\ cfg.max_run_time = None
    /\ pc[1] = "returned" /\ pc[2] = "returned"
    /\ Len(reports[1]) >= 2
    /\ elapsed[1] # elapsed[2]

(* C7 (as stated): whenever run() returns a genotype and an observer is    *)
(* configured, the last report has its terminal flag set, for every value  *)
(* of generations.                                                         *)
C7_LastReportTerminalAlways ==
    (pc[1] = "returned" /\ cfg.reporter /\ cfg.individual_length > 0)
    => /\ reports[1] # <<>>
       /\ reports[1][Len(reports[1])].should_stop

(* C7 (amended): whenever run() returns a genotype, an observer is         *)
(* configured and generations >= 1, the last report has its terminal flag  *)
(* set; with generations <= 0 run() returns without any report.            *)
C7_LastReportTerminal ==
    (pc[1] = "returned" /\ cfg.reporter /\ cfg.individual_length > 0)
    => IF cfg.generations >= 1
       THEN reports[1] # <<>> /\ reports[1][Len(reports[1])].should_stop
       ELSE reports[1] = <<>> /\ result[1] # None

\* a run that ends by exhausting its generations, with no stop condition met
C7_Witness ==
    /\ pc[1] = "returned"
    /\ cfg.reporter
    /\ Len(reports[1]) = cfg.generations
    /\ cfg.generations >= 2
    /\ LET h == history[1][Len(history[1])]
       IN  ~TimeUp(h) /\ ~OnTarget(h) /\ ~OutOfBudget(h)

(* C8: with an observer, there is exactly one report per executed          *)
(* generation, numbered 0, 1, 2, ... in order; only the last report can be *)
(* terminal, and after a terminal report the run has returned.             *)
C8_ReportsInOrder ==
    cfg.reporter
    => /\ Len(reports[1]) = Len(history[1])
       /\ \A k \in DOMAIN reports[1] :
             /\ reports[1][k].generation = k - 1
             /\ reports[1][k].should_stop
                => (k = Len(reports[1]) /\ pc[1] = "returned")

\* several reports, the last one terminal
C8_Witness ==
    /\ cfg.reporter
    /\ Len(reports[1]) >= 2
    /\ reports[1][Len(reports[1])].should_stop

(* C9: with individual_length = 0, run() returns None without calling the  *)
(* fitness function, building a population, reporting or counting, also    *)
(* when the strategy is not a recognized one.                              *)
C9_ZeroLength ==
    (cfg.individual_length = 0 /\ pc[1] # "ready")
    => /\ pc[1] = "returned"
       /\ result[1] = None
       /\ error[1] = ""
       /\ fitness_calls[1] = 0
       /\ population[1] = <<>>
       /\ reports[1] = <<>>
       /\ evaluations[1] = 0

\* run() has returned for a zero-length genotype and an unrecognized strategy
C9_Witness ==
    /\ cfg.individual_length = 0
    /\ cfg.strategy \notin Strategy
    /\ pc[1] = "returned"

(* C10: with individual_length > 0 and an unrecognized strategy, run()     *)
(* raises the configuration error before any fitness call, with no report  *)
(* and the evaluation counter unchanged.                                   *)
C10_ConfigurationError ==
    (cfg.individual_length > 0 /\ cfg.strategy \notin Strategy /\ pc[1] # "ready")
    => /\ pc[1] = "raised"
       /\ error[1] = "ValueError"
       /\ fitness_calls[1] = 0
       /\ population[1] = <<>>
       /\ reports[1] = <<>>
       /\ evaluations[1] = 0
       /\ result[1] = None

\* the configuration error raised for a warm-started engine
C10_Witness ==
    /\ cfg.individual_length > 0
    /\ cfg.strategy \notin Strategy
    /\ cfg.warm_start # None
    /\ pc[1] = "raised"

\* run() holds the population _init_population returned: no generation has
\* been executed and none has failed
InitialPopulationHeld(e) ==
    /\ cfg.individual_length > 0
    /\ \/ (pc[e] = "loop" /\ history[e] = <<>>)
       \/ (pc[e] = "returned" /\ cfg.generations <= 0)

\* the genotype matrix of the first call of run(), before clipping
RawParameters(e) ==
    PopulationParameters(cfg, Advance(RandomWithSeed(cfg, e), StrategyParameterCount(cfg)))

(* C11 (as stated): with a warm start, the generation-0 population has one *)
(* candidate per supplied genotype, in the supplied order, each with the   *)
(* supplied genotype unchanged.                                            *)
C11_WarmStartUnchanged ==
    (cfg.warm_start # None /\ InitialPopulationHeld(1))
    => /\ Len(population[1]) = Len(Get(cfg.warm_start))
       /\ \A k \in DOMAIN population[1] :
             population[1][k].genotype = Get(cfg.warm_start)[k]

(* C11 (amended): with a warm start, the generation-0 population has one   *)
(* candidate per supplied genotype, in the supplied order; each genotype   *)
(* is the supplied one, unchanged when no bounds are configured and with   *)
(* every component clipped into [lo, hi] when bounds are configured.       *)
C11_WarmStartClipped ==
    (cfg.warm_start # None /\ InitialPopulationHeld(1))
    => /\ Len(population[1]) = Len(Get(cfg.warm_start))
       /\ \A k \in DOMAIN population[1] :
             LET given == Get(cfg.warm_start)[k]
                 held == population[1][k].genotype
             IN  /\ DOMAIN held = DOMAIN given
                 /\ \A i \in DOMAIN given :
                       IF cfg.bounds = None THEN held[i] = given[i]
                       ELSE IF given[i] < Get(cfg.bounds)[1]
                            THEN held[i] = Get(cfg.bounds)[1]
                       ELSE IF given[i] > Get(cfg.bounds)[2]
                            THEN held[i] = Get(cfg.bounds)[2]
                       ELSE held[i] = given[i]

\* a warm start larger than population_size, one genotype of it clipped
C11_Witness ==
    /\ cfg.warm_start # None
    /\ InitialPopulationHeld(1)
    /\ Len(population[1]) > cfg.population_size
    /\ \E k \in DOMAIN population[1] :
          population[1][k].genotype # Get(cfg.warm_start)[k]

(* C12: with bounds (lo, hi), every component of every generation-0        *)
(* genotype, sampled or warm-started, lies in [lo, hi]: a component below  *)
(* lo becomes lo, one above hi becomes hi, one inside is left as it is.    *)
C12_BoundsRespected ==
    (cfg.bounds # None /\ InitialPopulationHeld(1))
    => LET lo == Get(cfg.bounds)[1]
           hi == Get(cfg.bounds)[2]
           raw == RawParameters(1)
       IN  /\ Len(population[1]) = Len(raw)
           /\ \A k \in DOMAIN population[1] :
                 \A i \in DOMAIN raw[k] :
                    LET x == population[1][k].genotype[i]
                    IN  /\ lo <= x /\ x <= hi
                        /\ raw[k][i] < lo => x = lo
                        /\ raw[k][i] > hi => x = hi
                        /\ (lo <= raw[k][i] /\ raw[k][i] <= hi) => x = raw[k][i]

\* a sampled population of which one component was raised to the lower
\* bound and another sits exactly on a bound unchanged
C12_Witness ==
    /\ cfg.bounds # None
    /\ cfg.warm_start = None
    /\ InitialPopulationHeld(1)
    /\ \E k \in DOMAIN population[1] : \E i \in DOMAIN RawParameters(1)[k] :
          RawParameters(1)[k][i] < Get(cfg.bounds)[1]
    /\ \E k \in DOMAIN population[1] : \E i \in DOMAIN RawParameters(1)[k] :
          RawParameters(1)[k][i] = Get(cfg.bounds)[2]

\* run() has ended, by a return or by an exception
Finished(e) == pc[e] \in {"returned", "raised"}

\* none of the three early-stop parameters is configured
NoStopConfigured ==
    /\ cfg.target_fitness_value = None
    /\ cfg.max_run_time = None
    /\ cfg.max_evaluations = None

(* C13: run() always ends, after at most `generations` generations; the    *)
(* generation with index generations - 1 is flagged as stopping and is the *)
(* last one; with no stop parameter configured a run that returns has      *)
(* executed exactly `generations` generations.                             *)
C13_Termination ==
    /\ <>Finished(1)
    /\ [](/\ Len(history[1]) <= Max(cfg.generations, 0)
          /\ \A k \in DOMAIN history[1] :
                history[1][k].generation = cfg.generations - 1
                => /\ history[1][k].should_stop
                   /\ k = Len(history[1])
                   /\ pc[1] = "returned"
          /\ (pc[1] = "returned" /\ cfg.individual_length > 0 /\ NoStopConfigured)
             => Len(history[1]) = Max(cfg.generations, 0))

\* a run without stop parameters that returned after all its generations
C13_Witness ==
    /\ pc[1] = "returned"
    /\ NoStopConfigured
    /\ cfg.generations >= 2
    /\ Len(history[1]) = cfg.generations
    /\ history[1][Len(history[1])].should_stop

\* the index of the last generation executed by the current call
LastExecuted(e) == history[e][Len(history[e])].generation

\* the survivors of generation record h, as they went into the union
SurvivorsOf(h) == SubSeq(h.pool, h.children + 1, Len(h.pool))

(* C14: the aging step keeps exactly the individuals of age < max_age, in  *)
(* order, each one year older, and drops the others; offspring enter with  *)
(* age 0; an individual's age is the number of generations it has          *)
(* survived, and no individual of the population is older than max_age.    *)
C14_Aging ==
    /\ \A k \in DOMAIN history[1] :
          LET h == history[1][k]
              young == SelectSeq(h.parent_ages, LAMBDA a : a < cfg.max_age)
          IN  /\ [i \in DOMAIN SurvivorsOf(h) |-> SurvivorsOf(h)[i].age]
                    = [i \in DOMAIN young |-> young[i] + 1]
              /\ \A i \in 1..h.children : h.pool[i].age = 0
    /\ Ran(1)
       => \A i \in DOMAIN population[1] :
             /\ population[1][i].age = LastExecuted(1) - population[1][i].born
             /\ population[1][i].age >= 0
             /\ population[1][i].age <= cfg.max_age

\* a generation whose aging step kept one parent and dropped another
C14_Witness ==
    /\ Ran(1)
    /\ cfg.max_age >= 1
    /\ \E k \in DOMAIN history[1] :
          /\ \E i \in DOMAIN history[1][k].parent_ages :
                history[1][k].parent_ages[i] >= cfg.max_age
          /\ \E i \in DOMAIN history[1][k].parent_ages :
                history[1][k].parent_ages[i] < cfg.max_age
    /\ \E i \in DOMAIN population[1] : population[1][i].age = cfg.max_age

(* C15: an individual created in generation g (the initial population     *)
(* counting as created just before generation 0) belongs to the            *)
(* population after generations g .. g + max_age at most, however fit it   *)
(* is; with max_age = 0 the population after a generation holds only       *)
(* offspring created in that generation.                                   *)
C15_BoundedLifetime ==
    Ran(1)
    => \A i \in DOMAIN population[1] :
          /\ population[1][i].born <= LastExecuted(1)
          /\ LastExecuted(1) <= population[1][i].born + cfg.max_age
          /\ cfg.max_age = 0 => population[1][i].born = LastExecuted(1)

\* the best of a generation has reached max_age >= 1 and is gone from the
\* next population, whose best is strictly worse
C15_Witness ==
    /\ Ran(1)
    /\ cfg.max_age >= 1
    /\ \E k \in 1..(Len(history[1]) - 1) :
          /\ history[1][k].best.age = cfg.max_age
          /\ ~NotWorse(Get(history[1][k + 1].best.fitness),
                       Get(history[1][k].best.fitness))

(* C16: in every generation each individual of the population held at the *)
(* start, those the aging step then drops included, has exactly            *)
(* num_children offspring, so the offspring number num_children times the  *)
(* size at the start; the union that is evaluated and sorted holds these   *)
(* offspring followed by the aged survivors, and the new population is its *)
(* truncation.                                                             *)
C16_Reproduction ==
    \A k \in DOMAIN history[1] :
        LET h == history[1][k]
        IN  /\ h.children = cfg.num_children * h.parents
            /\ \A p \in 1..h.parents :
                  Cardinality({c \in DOMAIN h.offspring_of : h.offspring_of[c] = p})
                     = cfg.num_children
            /\ Len(h.pool) = h.children + h.survivors
            /\ Len(h.ranked) = Len(h.pool)
            /\ \A i \in 1..h.children :
                  h.pool[i].born = h.generation /\ h.pool[i].age = 0
            /\ \A i \in DOMAIN SurvivorsOf(h) :
                  /\ SurvivorsOf(h)[i].born < h.generation
                  /\ SurvivorsOf(h)[i].age = h.generation - SurvivorsOf(h)[i].born
            /\ \A i \in DOMAIN h.ranked : h.ranked[i].fitness # None
            /\ h.size = Min(Len(h.ranked), cfg.population_size)
            /\ k = Len(history[1]) /\ Ran(1) => population[1] = Take(h.ranked, h.size)

\* a generation in which parents that aging dropped have left offspring
C16_Witness ==
    /\ Ran(1)
    /\ cfg.num_children >= 2
    /\ \E k \in DOMAIN history[1] :
          /\ history[1][k].survivors < history[1][k].parents
          /\ history[1][k].survivors > 0
          /\ history[1][k].children = cfg.num_children * history[1][k].parents

\* the individuals of sequence q whose fitness is f, in q's order
WithFitness(q, f) == SelectSeq(q, LAMBDA x : x.fitness = f)

(* C17: in both directions the sorted union is ordered by fitness and      *)
(* individuals of equal fitness keep the order they had in the             *)
(* concatenation offspring-then-survivors: among equals every offspring    *)
(* ranks before every survivor, and a truncation that cuts through a tie   *)
(* keeps offspring before survivors.                                       *)
C17_TieBreaking ==
    \A k \in DOMAIN history[1] :
        LET h == history[1][k]
        IN  /\ \A i, j \in DOMAIN h.ranked :
                  i < j => NotWorse(Get(h.ranked[i].fitness), Get(h.ranked[j].fitness))
            /\ \A i \in DOMAIN h.pool :
                  WithFitness(h.ranked, h.pool[i].fitness)
                     = WithFitness(h.pool, h.pool[i].fitness)
            /\ \A i, j \in DOMAIN h.ranked :
                  (/\ h.ranked[i].fitness = h.ranked[j].fitness
                   /\ h.ranked[i].born = h.generation
                   /\ h.ranked[j].born < h.generation) => i < j
            /\ \A i, j \in DOMAIN h.ranked :
                  (/\ h.ranked[i].fitness = h.ranked[j].fitness
                   /\ i <= h.size /\ j > h.size
                   /\ h.ranked[j].born = h.generation) => h.ranked[i].born = h.generation

\* maximizing: an offspring is kept and a survivor of the same fitness is cut
C17_Witness ==
    /\ cfg.maximize
    /\ \E k \in DOMAIN history[1] :
          LET h == history[1][k]
          IN  \E i, j \in DOMAIN h.ranked :
                 /\ i <= h.size /\ j > h.size
                 /\ h.ranked[i].fitness = h.ranked[j].fitness
                 /\ h.ranked[i].born = h.generation
                 /\ h.ranked[j].born < h.generation

\* the count self.evaluations held when the current call of run() began
CountAtEntry(e) == entered[e][Len(entered[e])]

\* individuals evaluated by the first k generations of the current call
RECURSIVE EvaluatedThrough(_, _)
EvaluatedThrough(e, k) ==
    IF k = 0 THEN 0 ELSE EvaluatedThrough(e, k - 1) + Len(history[e][k].ranked)

C18_CounterCarried ==
    /\ \A r \in DOMAIN entered[1] :
          /\ r = 1 => entered[1][r] = 0
          /\ r > 1 => entered[1][r] >= entered[1][r - 1]
    /\ entered[1] # <<>> =>
          /\ evaluations[1] >= CountAtEntry(1)
          /\ pc[1] \in {"loop", "returned"} =>
                evaluations[1]
                   = CountAtEntry(1) + EvaluatedThrough(1, Len(history[1]))
          /\ \A k \in DOMAIN reports[1] :
                reports[1][k].evaluations
                   = CountAtEntry(1) + EvaluatedThrough(1, k)
          /\ (/\ Len(entered[1]) >= 2
              /\ cfg.max_evaluations # None
              /\ CountAtEntry(1) >= Get(cfg.max_evaluations)
              /\ history[1] # <<>>) =>
                /\ Len(history[1]) = 1
                /\ history[1][1].should_stop
                /\ pc[1] = "returned"

(* C18: run() never resets and never decreases self.evaluations: a         *)
(* second call on the same engine starts from the count the first call     *)
(* left, its reports count from there, and a max_evaluations the first     *)
(* call already reached stops the second call in its first generation.     *)
C18_CounterPersists ==
    /\ []C18_CounterCarried
    /\ [][evaluations'[1] >= evaluations[1]]_vars

\* a second call, with generations to spare, stopped after one generation
\* by the budget the first call had used up
C18_Witness ==
    /\ Len(entered[1]) = 2
    /\ cfg.max_evaluations # None
    /\ CountAtEntry(1) >= Get(cfg.max_evaluations)
    /\ cfg.generations >= 2
    /\ pc[1] = "returned"
    /\ Len(history[1]) = 1
    /\ reports[1] # <<>>
    /\ reports[1][1].evaluations > Len(history[1][1].ranked)

\* the size of the population _init_population builds for the configuration
InitialSize == Len(PopulationParameters(cfg, 0))

\* the size of the population generation k of the current call reproduced from
SizeBefore(k) == IF k = 1 THEN InitialSize ELSE history[1][k - 1].size

(* C19: with a non-empty initial population, population_size >= 1 and     *)
(* num_children >= 1, the population after each generation's truncation    *)
(* holds min(population_size, num_children x previous size + survivors)   *)
(* individuals, at least one, so reading its first element never fails.    *)
C19_NeverEmpty ==
    (/\ cfg.population_size >= 1
     /\ cfg.num_children >= 1
     /\ ~SkipsRun(cfg)
     /\ RecognizedStrategy(cfg.strategy)
     /\ InitialSize >= 1
     /\ pc[1] # "ready") =>
        /\ error[1] # "IndexError"
        /\ pc[1] # "raised"
        /\ population[1] # <<>>
        /\ best[1] # None
        /\ \A k \in DOMAIN history[1] :
              LET h == history[1][k]
              IN  /\ h.parents = SizeBefore(k)
                  /\ h.size = Min(cfg.population_size,
                                  cfg.num_children * SizeBefore(k) + h.survivors)
                  /\ h.size >= 1
                  /\ h.best = h.ranked[1]
        /\ history[1] # <<>> =>
              Len(population[1]) = history[1][Len(history[1])].size

\* a one-genotype warm start with num_children = 1 and max_age = 0 is still
\* one individual after two generations, below population_size
C19_Witness ==
    /\ cfg.warm_start # None
    /\ InitialSize = 1
    /\ cfg.num_children = 1
    /\ cfg.max_age = 0
    /\ cfg.population_size >= 2
    /\ Len(history[1]) >= 2
    /\ \A k \in DOMAIN history[1] : history[1][k].size = 1
    /\ pc[1] = "returned"
    /\ result[1] # None

(* C20: the stop conditions are tested only after a generation's          *)
(* selection: with generations >= 1 and individual_length > 0, run()       *)
(* has neither returned nor reported before one full generation            *)
(* (reproduction, aging, evaluation, truncation) has run, whatever the     *)
(* initial best and the evaluation budget, and the genotype it returns is  *)
(* the first of the population that generation left.                       *)
C20_StopsOnlyAfterGeneration ==
    (cfg.generations >= 1 /\ cfg.individual_length > 0) =>
        /\ history[1] = <<>> => (result[1] = None /\ reports[1] = <<>>)
        /\ pc[1] = "returned" =>
              /\ history[1] # <<>>
              /\ history[1][1].generation = 0
              /\ result[1] = Some(population[1][1].genotype)
              /\ population[1][1] = history[1][Len(history[1])].ranked[1]
        /\ \A k \in DOMAIN history[1] :
              LET h == history[1][k]
              IN  /\ h.children = cfg.num_children * h.parents
                  /\ Len(h.ranked) = h.children + h.survivors
                  /\ h.size = Min(cfg.population_size, Len(h.ranked))
                  /\ h.evaluations >= Len(h.ranked)

\* an evaluation budget of 0, met before anything is evaluated, still lets
\* the first generation run before run() returns
C20_Witness ==
    /\ cfg.max_evaluations = Some(0)
    /\ cfg.generations >= 2
    /\ pc[1] = "returned"
    /\ Len(history[1]) = 1
    /\ history[1][1].children >= 1
    /\ result[1] = Some(history[1][1].best.genotype)

====
